---- MODULE Spec2Model ----
(***************************************************************************)
(* Model of the storefront product form: the color/size variant resolution *)
(* of ProductForm (cart-line builder) and SizeSelectorWithQuantities (per  *)
(* size display), over product snapshots as the Storefront API supplies    *)
(* them.                                                                   *)
(*                                                                         *)
(* Strings that the code converts (trim, toLowerCase, parseInt) are        *)
(* sequences of one-character strings, so that the conversions are         *)
(* computed and not assumed.  Strings that the code only compares          *)
(* (product handles) are plain strings.  JavaScript null/undefined is the  *)
(* record NULL; a nullable value that is not itself a record is boxed.     *)
(***************************************************************************)
EXTENDS Integers, Sequences, FiniteSets, TLC

\* ---------------------------------------------------------------- bounds
\* largest digit a shopper types into a quantity field
MaxQty == 2
\* largest number of entries of a product's adjacentVariants list
MaxAdj == 2
\* largest number of quantity updates queued before they are applied
MaxPending == 2
\* largest number of tags of a product
MaxTags == 2
\* largest number of images of the carousel
MaxImages == 2

\* ------------------------------------------------------- null and boxing
NULL == [null |-> TRUE]
Box(x) == [val |-> x]

\* ---------------------------------------------------------------- strings
sSize == <<"S", "i", "z", "e">>
sLowerSize == <<"s", "i", "z", "e">>
sColor == <<"C", "o", "l", "o", "r">>
sRed == <<"R", "e", "d">>
sM == <<"M">>
sMSpace == <<"M", " ">>
sLowerM == <<"m">>
sL == <<"L">>
sSpaceL == <<" ", "L">>

\* String.prototype.toLowerCase, on the letters the model uses
LowerChar(c) ==
  CASE c = "S" -> "s"
    [] c = "C" -> "c"
    [] c = "R" -> "r"
    [] c = "M" -> "m"
    [] c = "L" -> "l"
    [] OTHER -> c

toLowerCase(s) == [i \in 1..Len(s) |-> LowerChar(s[i])]

RECURSIVE TrimStart(_)
TrimStart(s) ==
  IF s = <<>> THEN <<>>
  ELSE IF Head(s) = " " THEN TrimStart(Tail(s))
  ELSE s

RECURSIVE TrimEnd(_)
TrimEnd(s) ==
  IF s = <<>> THEN <<>>
  ELSE IF s[Len(s)] = " " THEN TrimEnd(SubSeq(s, 1, Len(s) - 1))
  ELSE s

\* String.prototype.trim
trim(s) == TrimEnd(TrimStart(s))

\* String.prototype.startsWith
startsWith(s, prefix) ==
  Len(s) >= Len(prefix) /\ SubSeq(s, 1, Len(prefix)) = prefix

\* the positions at which pattern occurs in s
OccursAt(s, pattern) ==
  {k \in 1..(Len(s) - Len(pattern) + 1) :
     SubSeq(s, k, k + Len(pattern) - 1) = pattern}

\* String.prototype.replace(pattern, '') with a string pattern: the first
\* occurrence is removed
replace(s, pattern) ==
  IF OccursAt(s, pattern) = {} THEN s
  ELSE LET k == CHOOSE k \in OccursAt(s, pattern) :
                  \A j \in OccursAt(s, pattern) : k <= j
       IN SubSeq(s, 1, k - 1) \o SubSeq(s, k + Len(pattern), Len(s))

\* String.prototype.includes
includes(s, searchString) == OccursAt(s, searchString) # {}

sColorCodePrefix == <<"c", "o", "l", "o", "r", "C", "o", "d", "e", ":">>
sColorNamePrefix == <<"c", "o", "l", "o", "r", "N", "a", "m", "e", ":">>

\* ------------------------------------------------------------ parseInt
Digits == {"0", "1", "2", "3", "4", "5", "6", "7", "8", "9"}

DigitVal(c) ==
  CASE c = "0" -> 0 [] c = "1" -> 1 [] c = "2" -> 2 [] c = "3" -> 3
    [] c = "4" -> 4 [] c = "5" -> 5 [] c = "6" -> 6 [] c = "7" -> 7
    [] c = "8" -> 8 [] c = "9" -> 9

\* the value of the longest prefix of digits of s, acc the value so far
RECURSIVE DigitPrefix(_, _, _)
DigitPrefix(s, acc, seen) ==
  IF s = <<>> \/ Head(s) \notin Digits
    THEN [seen |-> seen, n |-> acc]
    ELSE DigitPrefix(Tail(s), 10 * acc + DigitVal(Head(s)), TRUE)

NaN == [nan |-> TRUE]

\* parseInt(str, 10): leading blanks skipped, an optional sign, then the
\* longest run of digits; NaN when there is no digit
parseInt(str) ==
  LET s == TrimStart(str)
      neg == s # <<>> /\ Head(s) = "-"
      body == IF s # <<>> /\ Head(s) \in {"-", "+"} THEN Tail(s) ELSE s
      p == DigitPrefix(body, 0, FALSE)
  IN IF ~p.seen THEN NaN
     ELSE Box(IF neg THEN 0 - p.n ELSE p.n)

\* ---------------------------------------------------------- parseFloat
\* the length of the longest prefix of digits of s
RECURSIVE DigitRun(_)
DigitRun(s) ==
  IF s = <<>> \/ Head(s) \notin Digits THEN 0
  ELSE 1 + DigitRun(Tail(s))

\* parseFloat(str): leading blanks skipped, an optional sign, a run of
\* digits, then an optional point and a run of digits; NaN when neither
\* run has a digit.  The number is held in hundredths, which is what
\* toFixed(2) prints; the amounts of the model have at most two decimals.
parseFloat(str) ==
  LET s == TrimStart(str)
      neg == s # <<>> /\ Head(s) = "-"
      body == IF s # <<>> /\ Head(s) \in {"-", "+"} THEN Tail(s) ELSE s
      w == DigitRun(body)
      whole == DigitPrefix(body, 0, FALSE).n
      rest == SubSeq(body, w + 1, Len(body))
      decimals == IF rest # <<>> /\ Head(rest) = "." THEN Tail(rest) ELSE <<>>
      f == DigitRun(decimals)
      tenths == IF f >= 1 THEN DigitVal(decimals[1]) ELSE 0
      hundredths == IF f >= 2 THEN DigitVal(decimals[2]) ELSE 0
      n == 100 * whole + 10 * tenths + hundredths
  IN IF w = 0 /\ f = 0 THEN NaN
     ELSE Box(IF neg THEN 0 - n ELSE n)

\* parseInt(e.target.value, 10) || 0
NewQuantity(str) ==
  LET r == parseInt(str)
  IN IF r = NaN THEN 0 ELSE r.val

\* ------------------------------------------------- product snapshots
\* A variant as PRODUCT_VARIANT_FRAGMENT delivers it: id, product.handle,
\* selectedOptions (a list of name/value pairs, or absent),
\* availableForSale, quantityAvailable (a number, or null when the
\* inventory scope is not granted) and price (a MoneyV2, or absent).
Money(amount) == [amount |-> amount]

sTen == <<"1", "0", ".", "0">>
sPrice == <<"2", "4", ".", "9", "9">>
sNotANumber == <<"n", "/", "a">>

Variant(id, handle, options, availableForSale, quantityAvailable) ==
  [id |-> [gid |-> id],
   product |-> [handle |-> handle],
   selectedOptions |-> options,
   availableForSale |-> availableForSale,
   quantityAvailable |-> quantityAvailable,
   price |-> Money(Box(sTen))]

\* the variant with another price field
WithPrice(variant, price) == [variant EXCEPT !.price = price]

Opt(name, value) == [name |-> name, value |-> value]

hShirt == "shirt"
hShirtRed == "shirt-red"

\* variants of the base product "shirt"
vShirtM == Variant("v1", hShirt, Box(<<Opt(sSize, sM)>>), TRUE, NULL)
vShirtL == Variant("v2", hShirt, Box(<<Opt(sColor, sRed), Opt(sSize, sL)>>), TRUE, Box(5))
\* variants of the color product "shirt-red"
vRedM == Variant("v3", hShirtRed, Box(<<Opt(sColor, sRed), Opt(sLowerSize, sMSpace)>>), TRUE, NULL)
vRedMSoldOut == Variant("v4", hShirtRed, Box(<<Opt(sSize, sM)>>), FALSE, NULL)
vRedL == Variant("v5", hShirtRed, Box(<<Opt(sSize, sL)>>), FALSE, Box(5))
vRedLowerM == Variant("v6", hShirtRed, Box(<<Opt(sSize, sLowerM)>>), TRUE, Box(3))
vRedNoSize == Variant("v7", hShirtRed, Box(<<Opt(sColor, sRed)>>), TRUE, NULL)
vRedNoOptions == Variant("v8", hShirtRed, NULL, TRUE, Box(0))
\* a sold-out variant of a product without sizes
vShirtSoldOut == Variant("v9", hShirt, Box(<<Opt(sColor, sRed)>>), FALSE, Box(0))
\* a variant of "shirt-red" with a large known inventory count
vRedLBulk ==
  WithPrice(Variant("v10", hShirtRed, Box(<<Opt(sSize, sL)>>), TRUE, Box(1200)),
            Money(Box(sPrice)))
\* variants of "shirt-red" whose price is not a decimal number, is absent,
\* or has no amount
vRedMBadPrice ==
  WithPrice(Variant("v11", hShirtRed, Box(<<Opt(sSize, sM)>>), TRUE, Box(3)),
            Money(Box(sNotANumber)))
vRedMNoPrice ==
  WithPrice(Variant("v12", hShirtRed, Box(<<Opt(sSize, sM)>>), TRUE, Box(3)), NULL)
vRedLNoAmount ==
  WithPrice(Variant("v13", hShirtRed, Box(<<Opt(sSize, sL)>>), TRUE, NULL),
            Money(NULL))

Handles == {hShirt, hShirtRed}

\* what an entry of adjacentVariants can be (null entries included)
AdjacentPool ==
  {vShirtM, vRedM, vRedMSoldOut, vRedL, vRedLowerM, vRedNoSize, vRedNoOptions, NULL}

RECURSIVE SeqsUpTo(_, _)
SeqsUpTo(S, n) ==
  IF n = 0 THEN {<<>>}
  ELSE LET shorter == SeqsUpTo(S, n - 1)
       IN shorter \cup {Append(s, x) : s \in {t \in shorter : Len(t) = n - 1}, x \in S}

\* adjacentVariants: absent, or a list of at most MaxAdj entries
AdjacentLists == {NULL} \cup {Box(s) : s \in SeqsUpTo(AdjacentPool, MaxAdj)}

\* an option value of a product as the API delivers it
OptionValue(name, firstSelectableVariant) ==
  [name |-> name, firstSelectableVariant |-> firstSelectableVariant]

Option(name, optionValues) == [name |-> name, optionValues |-> optionValues]

ColorOption == Option(sColor, <<OptionValue(sRed, NULL)>>)

\* the pre-resolved variants a color product's size values can carry:
\* a genuine member, a variant of another product, a variant of another size
BundleFirstSelectableM == {NULL, vRedM, vShirtM, vRedL}
BundleFirstSelectableL == {NULL, vRedL}

\* the options of a color product: no Size option, a Size option that lacks
\* the second label, or a Size option with both labels
BundleOptions ==
  {<<ColorOption>>}
  \cup {<<ColorOption, Option(sSize, <<OptionValue(sM, m)>>)>> :
          m \in BundleFirstSelectableM}
  \cup {<<Option(sSize, <<OptionValue(sM, m), OptionValue(sSpaceL, l)>>)>> :
          m \in BundleFirstSelectableM, l \in BundleFirstSelectableL}

\* the products that selectedColorProduct can hold
ColorProducts ==
  {[handle |-> h, adjacentVariants |-> a, options |-> o] :
     h \in Handles, a \in AdjacentLists, o \in BundleOptions}

ColorProduct(handle, adjacentVariants, options) ==
  [handle |-> handle, adjacentVariants |-> adjacentVariants, options |-> options]

SizeValues(m, l) == Option(sSize, <<OptionValue(sM, m), OptionValue(sSpaceL, l)>>)

\* a product of the related-products query: the color product with the
\* tags that name its color
Tagged(colorProduct, tags) ==
  [handle |-> colorProduct.handle, adjacentVariants |-> colorProduct.adjacentVariants,
   options |-> colorProduct.options, tags |-> tags]

ColorCodeTag(code) == sColorCodePrefix \o code
ColorNameTag(name) == sColorNamePrefix \o name

\* the color products of one product page, in the order the
\* related-products query delivers them: each product lists variants of its
\* own only and carries a colorCode tag of its own
CatalogNodes ==
  <<Tagged(ColorProduct(hShirt, Box(<<vShirtM, vShirtL>>), <<SizeValues(vShirtM, vShirtL)>>),
           Box(<<ColorCodeTag(<<"W">>), ColorNameTag(<<"W", "h", "i", "t", "e">>)>>)),
    Tagged(ColorProduct(hShirtRed, Box(<<vRedM, vRedL>>), <<SizeValues(vRedM, vRedL)>>),
           Box(<<ColorCodeTag(<<" ", "R", "1", " ">>), ColorNameTag(<<" ", "R", "e", "d">>)>>)),
    Tagged(ColorProduct(hShirtRed, Box(<<vRedMSoldOut, vRedL>>), <<SizeValues(NULL, vRedL)>>),
           Box(<<ColorNameTag(<<"R", "o", "s", "e">>), ColorCodeTag(<<"R", "2">>)>>)),
    Tagged(ColorProduct(hShirtRed, Box(<<vRedL>>),
                        <<ColorOption, Option(sSize, <<OptionValue(sSpaceL, vRedL)>>)>>),
           Box(<<ColorCodeTag(<<"R", "3">>)>>)),
    Tagged(ColorProduct(hShirtRed, Box(<<vRedNoSize>>),
                        <<ColorOption, Option(sSize, <<OptionValue(sM, vRedM)>>)>>),
           Box(<<ColorCodeTag(<<"R", "4">>)>>)),
    Tagged(ColorProduct(hShirtRed, NULL, <<ColorOption>>),
           Box(<<ColorCodeTag(<<"R", "5">>)>>)),
    Tagged(ColorProduct(hShirtRed, Box(<<vRedMBadPrice, vRedLBulk>>),
                        <<SizeValues(vRedMBadPrice, vRedLBulk)>>),
           Box(<<ColorCodeTag(<<"R", "6">>)>>)),
    Tagged(ColorProduct(hShirtRed, Box(<<vRedMNoPrice, vRedLNoAmount>>),
                        <<SizeValues(vRedMNoPrice, vRedLNoAmount)>>),
           Box(<<ColorCodeTag(<<"R", "7">>)>>))>>

Catalog == {CatalogNodes[k] : k \in 1..Len(CatalogNodes)}

\* an option value of the base product after getProductOptions: the API's
\* name and firstSelectableVariant plus the decoded available/exists flags
MappedValue(name, firstSelectableVariant, available, exists) ==
  [name |-> name, firstSelectableVariant |-> firstSelectableVariant,
   available |-> available, exists |-> exists]

\* available/exists as decoded from the product's encoded variant strings:
\* in stock, constructible but sold out, or not constructible
ValueFlags == {<<TRUE, TRUE>>, <<FALSE, TRUE>>, <<FALSE, FALSE>>}

BaseValuesM ==
  {MappedValue(sM, f, fl[1], fl[2]) : f \in {NULL, vShirtM}, fl \in ValueFlags}

BaseValuesL ==
  {MappedValue(sSpaceL, f, TRUE, TRUE) : f \in {NULL, vShirtL}}

\* productOptions of a product that gets the size selector
MultiSizeProductOptions ==
  {<<ColorOption, Option(sSize, <<m, l>>)>> : m \in BaseValuesM, l \in BaseValuesL}

\* productOptions of a product that gets the standard form: no Size option,
\* or a Size option with a single value
SingleProductOptions ==
  {<<ColorOption>>} \cup {<<Option(sSize, <<m>>)>> : m \in BaseValuesM}

\* what the shopper can type into a quantity field
QuantityInputs ==
  {<<>>, <<"e">>, <<"-", "1">>, <<"1", ".", "5">>}
  \cup {<<d>> : d \in {c \in Digits : DigitVal(c) <= MaxQty}}

\* --------------------------------------------------------------- state
\* prop: the base product's mapped options
VARIABLE productOptions
\* prop: the base product's selected variant, or NULL
VARIABLE selectedVariant
\* prop: the active color product, or NULL
VARIABLE selectedColorProduct
\* useState({}): size label -> entered quantity
VARIABLE sizeQuantities
\* the aside that open() shows: "closed" or "cart"
VARIABLE aside
\* what the last render produced, NULL while a render is pending
VARIABLE view
\* the last availability computed for a given variant
VARIABLE probe
\* the updaters handed to setSizeQuantities that React has not applied yet
VARIABLE pending

\* loadDeferredData: where the promise chain stands ("idle", "product",
\* "related", "done")
VARIABLE loaderPc
\* the storefront queries the loader has issued, in order
VARIABLE queries
\* how the product query settled
VARIABLE productOutcome
\* how the related-products query settled
VARIABLE relatedOutcome
\* the deferred promise the loader returns
VARIABLE relatedProducts

\* ProductImage prop: the images of the carousel
VARIABLE images
\* ProductImage useState(0): the 0-based index of the image shown
VARIABLE currentImageIndex
\* the dependencies [length, first id] the reset effect last ran with, NULL
\* before its first run
VARIABLE effectDeps
\* what the last render of ProductImage produced, NULL while a render is
\* pending
VARIABLE imageView
\* history: the images have changed and no carousel button was clicked
\* since
VARIABLE imagesChanged

\* Product: the product the loader delivered
VARIABLE product
\* Product: the nodes the deferred relatedProducts resolved with, NULL while
\* there are none
VARIABLE relatedNodes
\* Product useState(initialColorCode): the code of the color picked, or NULL
VARIABLE selectedColor
\* ColorDropdown useState(false): the list of colors is shown
VARIABLE isOpen
\* ColorDropdown useState(''): what the search field holds
VARIABLE searchTerm

formVars == <<productOptions, selectedVariant, selectedColorProduct, sizeQuantities,
              aside, view, probe, pending>>

loaderVars == <<loaderPc, queries, productOutcome, relatedOutcome, relatedProducts>>

carouselVars == <<images, currentImageIndex, effectDeps, imageView, imagesChanged>>

pageVars == <<product, relatedNodes, selectedColor, isOpen, searchTerm>>

\* the state outside the product form
outsideForm == <<loaderVars, carouselVars, pageVars>>

vars == <<formVars, outsideForm>>

\* Array.prototype.find: the first element of s that satisfies P, or NULL
Find(s, P(_)) ==
  LET I == {i \in 1..Len(s) : P(s[i])}
  IN IF I = {} THEN NULL ELSE s[CHOOSE i \in I : \A j \in I : i <= j]

IsSizeName(o) == o # NULL /\ toLowerCase(o.name) = sLowerSize

FindSizeOption(options) == Find(options, IsSizeName)

sizeOption == FindSizeOption(productOptions)

\* getProductOptions keeps each option's name and each value's name and
\* firstSelectableVariant, which is all the form reads of the color product
getProductOptions(colorProduct) == colorProduct.options

colorProductOptions ==
  IF selectedColorProduct # NULL THEN Box(getProductOptions(selectedColorProduct)) ELSE NULL

effectiveSizeOption ==
  IF colorProductOptions # NULL THEN FindSizeOption(colorProductOptions.val) ELSE sizeOption

\* the size selector is rendered instead of the standard form
\* the size selector chosen for every product that has a Size option
MultiSize_AnySize == sizeOption # NULL

MultiSize == sizeOption # NULL /\ Len(sizeOption.optionValues) > 1

\* the value of a variant's first option named "size", trimmed; NULL when
\* the variant has no such option
VariantSizeValue(variant) ==
  LET o == FindSizeOption(variant.selectedOptions.val)
  IN IF o = NULL THEN NULL ELSE Box(trim(o.value))

\* ------------------------------------------- Product (color selection)
\* product.tags?.find((tag) => tag.startsWith('colorCode:'))
colorCodeTag(p) ==
  IF p.tags = NULL THEN NULL
  ELSE LET P(tag) == startsWith(tag, sColorCodePrefix)
           found == Find(p.tags.val, P)
       IN IF found = NULL THEN NULL ELSE Box(found)

colorNameTag(p) ==
  IF p.tags = NULL THEN NULL
  ELSE LET P(tag) == startsWith(tag, sColorNamePrefix)
           found == Find(p.tags.val, P)
       IN IF found = NULL THEN NULL ELSE Box(found)

\* the color code taken from the tag without trimming it
colorCode_Untrimmed(p) ==
  IF colorCodeTag(p) = NULL THEN NULL
  ELSE Box(replace(colorCodeTag(p).val, sColorCodePrefix))

\* colorTag.replace('colorCode:', '').trim(), NULL without such a tag
colorCode(p) ==
  IF colorCodeTag(p) = NULL THEN NULL
  ELSE Box(trim(replace(colorCodeTag(p).val, sColorCodePrefix)))

\* colorNameTag ? colorNameTag.replace('colorName:', '').trim() : colorCode
colorName(p) ==
  IF colorNameTag(p) = NULL THEN colorCode(p).val
  ELSE trim(replace(colorNameTag(p).val, sColorNamePrefix))

\* the initial value of selectedColor
initialColorCode(p) == colorCode(p)

Color(p) == [code |-> colorCode(p).val, name |-> colorName(p), product |-> p]

\* colorMap.set for a product with a colorCode tag whose code is not in
\* the map yet
AddColor(map, p) ==
  IF colorCode(p) = NULL \/ \E k \in 1..Len(map) : map[k].code = colorCode(p).val
  THEN map
  ELSE Append(map, Color(p))

RECURSIVE AddColors(_, _)
AddColors(map, nodes) ==
  IF nodes = <<>> THEN map ELSE AddColors(AddColor(map, Head(nodes)), Tail(nodes))

\* Array.from(colorMap.values()): the current product first, then the
\* related products, one color per code
colorMap(currentProduct, allProducts) ==
  AddColors(<<>>, <<currentProduct>> \o allProducts)

\* the colors the page offers; none while relatedProducts has no nodes
colors ==
  IF relatedNodes = NULL THEN <<>> ELSE colorMap(product, relatedNodes.val)

RECURSIVE FilterColors(_, _)
FilterColors(list, term) ==
  IF list = <<>> THEN <<>>
  ELSE IF includes(toLowerCase(Head(list).name), toLowerCase(term))
       THEN <<Head(list)>> \o FilterColors(Tail(list), term)
       ELSE FilterColors(Tail(list), term)

\* the colors whose name contains the search term, case-insensitively
filteredColors == FilterColors(colors, searchTerm)

\* what the shopper can type into the search field
SearchTerms == {<<>>, <<"r">>, <<"W">>, <<"x">>}

\* the color dropdown is closed and empty
DropdownIdle ==
  /\ isOpen = FALSE
  /\ searchTerm = <<>>

\* the page around the form: the shirt with its color products, the color
\* of the active color product picked
PageIdle ==
  /\ product = CatalogNodes[1]
  /\ relatedNodes = Box(CatalogNodes)
  /\ selectedColor = IF selectedColorProduct \in Catalog
                     THEN colorCode(selectedColorProduct) ELSE NULL
  /\ DropdownIdle

\* the state outside the loader is at rest
LoaderIdle ==
  /\ loaderPc = "idle"
  /\ queries = <<>>
  /\ productOutcome = [settled |-> "no"]
  /\ relatedOutcome = [settled |-> "no"]
  /\ relatedProducts = [state |-> "none"]

\* the carousel is not looked at
CarouselIdle ==
  /\ images = <<>>
  /\ currentImageIndex = 0
  /\ effectDeps = NULL
  /\ imageView = NULL
  /\ imagesChanged = FALSE

OutsideFormIdle == LoaderIdle /\ CarouselIdle /\ PageIdle

\* ------------------------------------------- ProductForm (cart lines)
FormMatches(variant, sizeName) ==
  /\ variant # NULL
  /\ variant.selectedOptions # NULL
  /\ VariantSizeValue(variant) = Box(trim(sizeName))

findVariantForSize(sizeName) ==
  IF selectedColorProduct = NULL \/ selectedColorProduct.adjacentVariants = NULL
    THEN NULL
    ELSE LET P(variant) == FormMatches(variant, sizeName)
         IN Find(selectedColorProduct.adjacentVariants.val, P)

\* effectiveSizeOption?.optionValues.find((v) => v.name === value.name)
colorSizeValue(value) ==
  IF effectiveSizeOption = NULL THEN NULL
  ELSE LET P(v) == v.name = value.name
       IN Find(effectiveSizeOption.optionValues, P)

\* the variant the cart-line builder has after its first two steps: the
\* adjacent variant of that size, else the color product's pre-resolved one
CartColorVariant(value) ==
  LET step1 == findVariantForSize(value.name)
  IN IF step1 # NULL THEN step1
     ELSE IF colorSizeValue(value) = NULL THEN NULL
     ELSE colorSizeValue(value).firstSelectableVariant

\* the builder with its first step only
CartVariant_AdjacentOnly(value) == findVariantForSize(value.name)

\* the variant the cart-line builder resolves for a size value
CartVariant(value) ==
  IF CartColorVariant(value) # NULL
    THEN CartColorVariant(value)
    ELSE value.firstSelectableVariant

HasQuantity(name) == name \in DOMAIN sizeQuantities

\* the first filter with its quantity tests replaced by "was entered"
CartKeeps_AnyEntry(value) ==
  /\ HasQuantity(value.name)
  /\ CartVariant(value) # NULL
  /\ CartVariant(value).availableForSale

\* the first filter without its "quantity <= 0" test
CartKeeps_NoSignCheck(value) ==
  /\ HasQuantity(value.name)
  /\ sizeQuantities[value.name] # 0
  /\ CartVariant(value) # NULL
  /\ CartVariant(value).availableForSale

\* the first filter of cartLines
CartKeeps(value) ==
  /\ HasQuantity(value.name)
  /\ sizeQuantities[value.name] # 0
  /\ ~(sizeQuantities[value.name] <= 0)
  /\ CartVariant(value) # NULL
  /\ CartVariant(value).availableForSale

\* the line built with the standard form's quantity
CartLine_UnitQuantity(value) ==
  [merchandiseId |-> IF CartVariant(value) = NULL THEN NULL ELSE CartVariant(value).id,
   quantity |-> 1,
   selectedVariant |-> CartVariant(value)]

CartLine(value) ==
  [merchandiseId |-> IF CartVariant(value) = NULL THEN NULL ELSE CartVariant(value).id,
   quantity |-> sizeQuantities[value.name],
   selectedVariant |-> CartVariant(value)]

\* Array.prototype.filter
Filter(s, P(_)) == SelectSeq(s, P)

cartLines ==
  LET kept == Filter(sizeOption.optionValues, CartKeeps)
      lines == [i \in 1..Len(kept) |-> CartLine(kept[i])]
      HasId(line) == line.merchandiseId # NULL
  IN Filter(lines, HasId)

\* the lines of the standard form's AddToCartButton
singleLines ==
  IF selectedVariant # NULL
    THEN <<[merchandiseId |-> selectedVariant.id, quantity |-> 1,
            selectedVariant |-> selectedVariant]>>
    ELSE <<>>

\* the lines handed to the AddToCartButton that is rendered
Lines == IF MultiSize THEN cartLines ELSE singleLines

\* the button disabled while no quantity was ever entered
Disabled_NoQuantities ==
  IF MultiSize THEN DOMAIN sizeQuantities = {}
  ELSE selectedVariant = NULL \/ ~selectedVariant.availableForSale

\* the AddToCartButton that is rendered is disabled
Disabled ==
  IF MultiSize THEN Len(cartLines) = 0
  ELSE selectedVariant = NULL \/ ~selectedVariant.availableForSale

\* ------------------------------ SizeSelectorWithQuantities (display)
\* the match without the test of the variant's product handle
SelectorMatches_NoHandle(variant, sizeName) ==
  /\ variant # NULL
  /\ variant.selectedOptions # NULL
  /\ VariantSizeValue(variant) # NULL
  /\ VariantSizeValue(variant) = Box(trim(sizeName))

SelectorMatches(variant, sizeName) ==
  /\ variant # NULL
  /\ variant.selectedOptions # NULL
  /\ variant.product.handle = selectedColorProduct.handle
  /\ VariantSizeValue(variant) # NULL
  /\ VariantSizeValue(variant) = Box(trim(sizeName))

SelectorFindVariantForSize(sizeName) ==
  IF selectedColorProduct = NULL \/ selectedColorProduct.adjacentVariants = NULL
    THEN NULL
    ELSE LET P(variant) == SelectorMatches(variant, sizeName)
         IN Find(selectedColorProduct.adjacentVariants.val, P)

\* the pre-resolved variant taken without re-validation
CandidateAccepted_Trusting(candidate, value) == TRUE

\* the re-validation of the color product's pre-resolved variant
CandidateAccepted(candidate, value) ==
  /\ candidate.product.handle = selectedColorProduct.handle
  /\ candidate.selectedOptions # NULL
  /\ VariantSizeValue(candidate) = Box(trim(value.name))

candidateVariant(value) ==
  IF colorSizeValue(value) = NULL THEN NULL
  ELSE colorSizeValue(value).firstSelectableVariant

\* the variant the display has after its first two steps
DisplayColorVariant(value) ==
  LET step1 == SelectorFindVariantForSize(value.name)
  IN IF step1 = NULL /\ selectedColorProduct # NULL /\ effectiveSizeOption # NULL
          /\ candidateVariant(value) # NULL
          /\ CandidateAccepted(candidateVariant(value), value)
       THEN candidateVariant(value)
       ELSE step1

\* the display falling back to the base variant under a color product too
DisplayVariant_FallsBack(value) ==
  IF DisplayColorVariant(value) = NULL
    THEN value.firstSelectableVariant
    ELSE DisplayColorVariant(value)

\* the variant the display resolves for a size value
DisplayVariant(value) ==
  IF DisplayColorVariant(value) = NULL /\ selectedColorProduct = NULL
    THEN value.firstSelectableVariant
    ELSE DisplayColorVariant(value)

\* the availability taken from the variant and the base value alone
available_IgnoresProduct(variant, value) ==
  IF variant # NULL
    THEN variant.availableForSale = TRUE
    ELSE value.available /\ value.exists

\* the availability of a size value whose resolved variant is variant
available(variant, value) ==
  IF variant # NULL
    THEN IF selectedColorProduct # NULL
           THEN IF variant.product.handle = selectedColorProduct.handle
                  THEN variant.availableForSale = TRUE
                  ELSE FALSE
           ELSE variant.availableForSale = TRUE
    ELSE IF selectedColorProduct = NULL
           THEN value.available /\ value.exists
           ELSE FALSE

StockSentinel == 999

\* the sentinel reported whenever the count is unknown
stockQuantity_SentinelWhenUnknown(variant, isAvailable) ==
  IF variant # NULL /\ variant.quantityAvailable # NULL
    THEN variant.quantityAvailable.val
    ELSE StockSentinel

\* the stock forced to 0 for a size that is not available
stockQuantity_ZeroWhenUnavailable(variant, isAvailable) ==
  IF ~isAvailable THEN 0
  ELSE IF variant # NULL /\ variant.quantityAvailable # NULL
    THEN variant.quantityAvailable.val
    ELSE StockSentinel

stockQuantity(variant, isAvailable) ==
  IF variant # NULL /\ variant.quantityAvailable # NULL
    THEN variant.quantityAvailable.val
    ELSE IF isAvailable THEN StockSentinel
    ELSE 0

\* sizeQuantities[value.name] || 0
DisplayQuantity(value) ==
  IF HasQuantity(value.name) THEN sizeQuantities[value.name] ELSE 0

\* variant?.price?.amount ? parseFloat(variant.price.amount) : 0, in
\* hundredths; an empty amount is falsy like an absent one
price(variant) ==
  IF /\ variant # NULL
     /\ variant.price # NULL
     /\ variant.price.amount # NULL
     /\ variant.price.amount.val # <<>>
    THEN parseFloat(variant.price.amount.val)
    ELSE Box(0)

Label999Plus == [text |-> "999+"]

\* the stock cell of a size: "<n> In Stock" with n replaced by "999+" from
\* 999 on, or "Out of Stock"
StockLabel(quantity) ==
  IF quantity > 0
    THEN [inStock |-> TRUE,
          quantity |-> IF quantity >= 999 THEN Label999Plus ELSE [number |-> quantity]]
    ELSE [inStock |-> FALSE, quantity |-> NULL]

\* one item of the size selector grid
SizeRow(value) ==
  [name |-> value.name,
   variant |-> DisplayVariant(value),
   quantity |-> DisplayQuantity(value),
   available |-> available(DisplayVariant(value), value),
   stockQuantity |-> stockQuantity(DisplayVariant(value),
                                   available(DisplayVariant(value), value)),
   price |-> price(DisplayVariant(value)),
   stockLabel |-> StockLabel(stockQuantity(DisplayVariant(value),
                               available(DisplayVariant(value), value)))]

\* the log of all adjacent variants that the size selector writes before
\* it renders: adjacentVariants.map((v) => ({id: v.id, ...})) reads a
\* property of every entry and throws a TypeError on a null entry
LogAdjacentVariantsRaises ==
  /\ selectedColorProduct # NULL
  /\ selectedColorProduct.adjacentVariants # NULL
  /\ \E k \in 1..Len(selectedColorProduct.adjacentVariants.val) :
       selectedColorProduct.adjacentVariants.val[k] = NULL

\* the render of the size selector throws
Raises == MultiSize /\ LogAdjacentVariantsRaises

\* what ProductForm renders: the size grid (empty in the standard form),
\* the lines of the add-to-cart button and whether the button is disabled;
\* nothing of the form is on the page when its render has thrown
View ==
  [multiSize |-> MultiSize,
   raised |-> Raises,
   sizes |-> IF MultiSize /\ ~Raises
               THEN [i \in 1..Len(sizeOption.optionValues) |->
                       SizeRow(sizeOption.optionValues[i])]
               ELSE <<>>,
   lines |-> IF Raises THEN <<>> ELSE Lines,
   disabled |-> IF Raises THEN TRUE ELSE Disabled]

\* ------------------------------------------------------------ actions
EmptyQuantities == [k \in {} |-> 0]

\* the update that builds the new map from the changed key alone
handleQuantityChange_Overwrite(prev, sizeName, quantity) ==
  [k \in {sizeName} |-> quantity]

\* setSizeQuantities((prev) => ({...prev, [sizeName]: quantity}))
handleQuantityChange(prev, sizeName, quantity) ==
  [k \in (DOMAIN prev) \cup {sizeName} |-> IF k = sizeName THEN quantity ELSE prev[k]]

\* the shopper edits the quantity field of the i-th size; the field is
\* rendered disabled when the size is not available.  The state update
\* schedules a re-render: view is NULL until Render has run, and no event
\* of the shopper is handled before it.
QuantityInput(i, str) ==
  /\ view # NULL
  /\ view.multiSize
  /\ i \in 1..Len(view.sizes)
  /\ view.sizes[i].available
  /\ sizeQuantities' = handleQuantityChange(sizeQuantities, view.sizes[i].name, NewQuantity(str))
  /\ view' = NULL
  /\ UNCHANGED <<productOptions, selectedVariant, selectedColorProduct, aside, probe, pending>>
  /\ UNCHANGED outsideForm

\* the queued updaters applied in the order of their calls, each to the
\* result of the one before
RECURSIVE ApplyAll(_, _)
ApplyAll(prev, updates) ==
  IF updates = <<>> THEN prev
  ELSE ApplyAll(handleQuantityChange(prev, Head(updates).sizeName, Head(updates).quantity),
                Tail(updates))

\* a change event of the i-th quantity field handled while earlier updates
\* are still queued: the handler of the last render runs and its updater
\* joins the queue
QueueQuantity(i, str) ==
  /\ view # NULL
  /\ view.multiSize
  /\ i \in 1..Len(view.sizes)
  /\ view.sizes[i].available
  /\ Len(pending) < MaxPending
  /\ pending' = Append(pending, [sizeName |-> view.sizes[i].name,
                                 quantity |-> NewQuantity(str)])
  /\ UNCHANGED <<productOptions, selectedVariant, selectedColorProduct, sizeQuantities,
                 aside, view, probe>>
  /\ UNCHANGED outsideForm

\* React applies the queued updaters and schedules the render
ApplyUpdates ==
  /\ pending # <<>>
  /\ sizeQuantities' = ApplyAll(sizeQuantities, pending)
  /\ pending' = <<>>
  /\ view' = NULL
  /\ UNCHANGED <<productOptions, selectedVariant, selectedColorProduct, aside, probe>>
  /\ UNCHANGED outsideForm

\* Product.onColorSelect(color.code, color.product, color.image)
onColorSelect(color) ==
  /\ selectedColor' = Box(color.code)
  /\ selectedColorProduct' = color.product

\* the shopper clicks the swatch of a color of the page
ColorSelect(color) ==
  /\ view # NULL
  /\ onColorSelect(color)
  /\ view' = NULL
  /\ UNCHANGED <<productOptions, selectedVariant, sizeQuantities, aside, probe, pending>>
  /\ UNCHANGED <<loaderVars, carouselVars, product, relatedNodes, isOpen, searchTerm>>

\* ColorDropdown: the shopper clicks the button that shows or hides the list
ToggleDropdown ==
  /\ view # NULL
  /\ colors # <<>>
  /\ isOpen' = ~isOpen
  /\ UNCHANGED <<formVars, loaderVars, carouselVars>>
  /\ UNCHANGED <<product, relatedNodes, selectedColor, searchTerm>>

\* ColorDropdown: the shopper edits the search field of the open list
SearchEdit(term) ==
  /\ view # NULL
  /\ isOpen
  /\ term # searchTerm
  /\ searchTerm' = term
  /\ UNCHANGED <<formVars, loaderVars, carouselVars>>
  /\ UNCHANGED <<product, relatedNodes, selectedColor, isOpen>>

\* ColorDropdown.handleColorSelect: the shopper picks a color of the list
handleColorSelect(color) ==
  /\ view # NULL
  /\ isOpen
  /\ onColorSelect(color)
  /\ isOpen' = FALSE
  /\ searchTerm' = <<>>
  /\ view' = NULL
  /\ UNCHANGED <<productOptions, selectedVariant, sizeQuantities, aside, probe, pending>>
  /\ UNCHANGED <<loaderVars, carouselVars, product, relatedNodes>>

\* ColorDropdown.handleClickOutside: a mousedown outside the open list
handleClickOutside ==
  /\ view # NULL
  /\ isOpen
  /\ isOpen' = FALSE
  /\ searchTerm' = <<>>
  /\ UNCHANGED <<formVars, loaderVars, carouselVars>>
  /\ UNCHANGED <<product, relatedNodes, selectedColor>>

\* the click that also clears the form
AddToCart_ClearsQuantities ==
  /\ view # NULL
  /\ ~view.disabled
  /\ aside' = "cart"
  /\ sizeQuantities' = EmptyQuantities
  /\ view' = NULL
  /\ UNCHANGED <<productOptions, selectedVariant, selectedColorProduct, probe, pending>>
  /\ UNCHANGED outsideForm

\* the shopper clicks the add-to-cart button that is rendered
AddToCart ==
  /\ view # NULL
  /\ ~view.disabled
  /\ aside' = "cart"
  /\ UNCHANGED <<productOptions, selectedVariant, selectedColorProduct, sizeQuantities,
                 probe, view, pending>>
  /\ UNCHANGED outsideForm

\* the render of the form from its current props and state
Render ==
  /\ view = NULL
  /\ probe = NULL
  /\ view' = View
  /\ UNCHANGED <<productOptions, selectedVariant, selectedColorProduct, sizeQuantities,
                 aside, probe, pending>>
  /\ UNCHANGED outsideForm

\* the availability and stock computation applied to a given variant (or to
\* NULL) and the i-th size value under the current color product
ComputeAvailability(variant, i) ==
  /\ view = NULL
  /\ i \in 1..Len(sizeOption.optionValues)
  /\ probe' = [variant |-> variant,
               value |-> sizeOption.optionValues[i],
               available |-> available(variant, sizeOption.optionValues[i]),
               stockQuantity |-> stockQuantity(variant,
                                   available(variant, sizeOption.optionValues[i]))]
  /\ UNCHANGED <<productOptions, selectedVariant, selectedColorProduct, sizeQuantities,
                 aside, view, pending>>
  /\ UNCHANGED outsideForm

\* -------------------------------------------------------- specifications
\* the interactive form on a product page
Init ==
  /\ \/ /\ productOptions \in MultiSizeProductOptions
        /\ selectedVariant = vShirtM
     \/ /\ productOptions \in SingleProductOptions
        /\ selectedVariant \in {NULL, vShirtM, vShirtSoldOut}
  /\ selectedColorProduct \in Catalog \cup {NULL}
  /\ sizeQuantities = EmptyQuantities
  /\ aside = "closed"
  /\ probe = NULL
  /\ view = NULL
  /\ pending = <<>>
  /\ OutsideFormIdle

Next ==
  \/ Render
  \/ \E i \in 1..2, str \in QuantityInputs : QuantityInput(i, str)
  \/ \E k \in 1..Len(colors) : ColorSelect(colors[k])
  \/ AddToCart

Spec == Init /\ [][Next]_vars

\* the resolution and display computation over every product snapshot
InitResolve ==
  /\ productOptions \in MultiSizeProductOptions
  /\ selectedVariant = vShirtM
  /\ selectedColorProduct \in ColorProducts \cup {NULL}
  /\ sizeQuantities = EmptyQuantities
  /\ aside = "closed"
  /\ probe = NULL
  /\ view = NULL
  /\ pending = <<>>
  /\ OutsideFormIdle

NextResolve == Render

SpecResolve == InitResolve /\ [][NextResolve]_vars

\* the availability computation over every (variant, color product) pair
InitAvailability ==
  /\ productOptions \in MultiSizeProductOptions
  /\ selectedVariant = vShirtM
  /\ selectedColorProduct \in Catalog \cup {NULL}
  /\ sizeQuantities = EmptyQuantities
  /\ aside = "closed"
  /\ probe = NULL
  /\ view = NULL
  /\ pending = <<>>
  /\ OutsideFormIdle

NextAvailability ==
  \E variant \in AdjacentPool \cup {vShirtL}, i \in 1..2 : ComputeAvailability(variant, i)

SpecAvailability == InitAvailability /\ [][NextAvailability]_vars

\* the size selector with quantity updates that queue up before React
\* applies them
InitQueue ==
  /\ productOptions \in MultiSizeProductOptions
  /\ selectedVariant = vShirtM
  /\ selectedColorProduct = NULL
  /\ sizeQuantities = EmptyQuantities
  /\ aside = "closed"
  /\ probe = NULL
  /\ view = NULL
  /\ pending = <<>>
  /\ OutsideFormIdle

NextQueue ==
  \/ Render
  \/ \E i \in 1..2, str \in QuantityInputs : QueueQuantity(i, str)
  \/ ApplyUpdates

SpecQueue == InitQueue /\ [][NextQueue]_vars

\* ------------------------------------------------ loadDeferredData
sProductIDPrefix == <<"P", "r", "o", "d", "u", "c", "t", "I", "D", ":">>
sTagPrefix == <<"t", "a", "g", ":">>

\* the tags a product can carry
TagPool ==
  {sProductIDPrefix \o <<"7">>,
   sProductIDPrefix \o <<" ", "8", " ">>,
   sProductIDPrefix \o <<" ">>,
   sProductIDPrefix,
   sColorCodePrefix \o <<"R">>}

\* tags: absent, or a list of at most MaxTags tags
TagLists == {NULL} \cup {Box(t) : t \in SeqsUpTo(TagPool, MaxTags)}

\* what the product query can resolve with: no data, no product, or a
\* product with or without id
ProductResponses ==
  {NULL, [product |-> NULL]}
  \cup {[product |-> [id |-> i, tags |-> t]] : i \in {NULL, [gid |-> "p1"]}, t \in TagLists}

EmptyResult == [products |-> [nodes |-> <<>>]]

\* what the related-products query can resolve with
RelatedResponses ==
  {NULL,
   [products |-> NULL],
   EmptyResult,
   [products |-> [nodes |-> <<[id |-> [gid |-> "p1"], tags |-> NULL]>>]],
   [products |-> [nodes |-> <<[id |-> [gid |-> "p1"], tags |-> NULL], NULL>>]]}

ProductQuery == [query |-> "PRODUCT_QUERY"]

RelatedQuery(term) ==
  [query |-> "RELATED_PRODUCTS_QUERY", searchTerm |-> term]

\* currentProduct.tags?.find((tag) => tag.startsWith('ProductID:'))
productIdTag(currentProduct) ==
  IF currentProduct.tags = NULL THEN NULL
  ELSE LET P(tag) == startsWith(tag, sProductIDPrefix)
           found == Find(currentProduct.tags.val, P)
       IN IF found = NULL THEN NULL ELSE Box(found)

\* the product id taken from the tag without trimming it
productId_Untrimmed(currentProduct) ==
  IF productIdTag(currentProduct) = NULL THEN NULL
  ELSE Box(replace(productIdTag(currentProduct).val, sProductIDPrefix))

\* productIdTag ? productIdTag.replace('ProductID:', '').trim() : null
productId(currentProduct) ==
  IF productIdTag(currentProduct) = NULL THEN NULL
  ELSE Box(trim(replace(productIdTag(currentProduct).val, sProductIDPrefix)))

\* a step of the chain ends by returning a value, by returning the promise
\* of a query it has issued, or by throwing
Returns(value) == [kind |-> "value", value |-> value]
Issues(query) == [kind |-> "query", query |-> query]
Throws == [kind |-> "throw"]

\* the first then-handler, called with what the product query resolved with
ThenProduct(data) ==
  IF data = NULL THEN Throws
  ELSE IF data.product = NULL \/ data.product.id = NULL THEN Returns(EmptyResult)
  ELSE IF productId(data.product) = NULL \/ productId(data.product).val = <<>>
    THEN Returns(EmptyResult)
  ELSE Issues(RelatedQuery(sTagPrefix \o sProductIDPrefix \o productId(data.product).val))

\* the second then-handler: it logs every node (which throws on a null
\* node) and returns result || {products: {nodes: []}}
ThenResult(result) ==
  IF result = NULL THEN Returns(EmptyResult)
  ELSE IF result.products = NULL THEN Returns(result)
  ELSE IF \E k \in 1..Len(result.products.nodes) : result.products.nodes[k] = NULL
    THEN Throws
  ELSE Returns(result)

Fulfilled(value) == [state |-> "fulfilled", value |-> value]
Rejected == [state |-> "rejected"]

\* the chain without its catch-handler
CatchHandler_Missing == Rejected

\* the catch-handler: the chain fulfils with the empty result
CatchHandler == Fulfilled(EmptyResult)

\* how the chain settles after a step of the kinds value or throw
Settle(step) ==
  IF step.kind = "throw" THEN CatchHandler
  ELSE IF ThenResult(step.value).kind = "throw" THEN CatchHandler
  ELSE Fulfilled(ThenResult(step.value).value)

\* loadDeferredData is called: the product query is issued and the
\* promise of the chain is returned
LoadDeferredData ==
  /\ loaderPc = "idle"
  /\ queries' = Append(queries, ProductQuery)
  /\ relatedProducts' = [state |-> "pending"]
  /\ loaderPc' = "product"
  /\ UNCHANGED <<productOutcome, relatedOutcome>>
  /\ UNCHANGED <<formVars, carouselVars, pageVars>>

ProductQueryRejects ==
  /\ loaderPc = "product"
  /\ productOutcome' = [settled |-> "rejected"]
  /\ relatedProducts' = CatchHandler
  /\ loaderPc' = "done"
  /\ UNCHANGED <<queries, relatedOutcome>>
  /\ UNCHANGED <<formVars, carouselVars, pageVars>>

ProductQueryResolves(data) ==
  /\ loaderPc = "product"
  /\ productOutcome' = [settled |-> "resolved", data |-> data]
  /\ IF ThenProduct(data).kind = "query"
       THEN /\ queries' = Append(queries, ThenProduct(data).query)
            /\ loaderPc' = "related"
            /\ UNCHANGED relatedProducts
       ELSE /\ relatedProducts' = Settle(ThenProduct(data))
            /\ loaderPc' = "done"
            /\ UNCHANGED queries
  /\ UNCHANGED relatedOutcome
  /\ UNCHANGED <<formVars, carouselVars, pageVars>>

RelatedQueryRejects ==
  /\ loaderPc = "related"
  /\ relatedOutcome' = [settled |-> "rejected"]
  /\ relatedProducts' = CatchHandler
  /\ loaderPc' = "done"
  /\ UNCHANGED <<queries, productOutcome>>
  /\ UNCHANGED <<formVars, carouselVars, pageVars>>

RelatedQueryResolves(result) ==
  /\ loaderPc = "related"
  /\ relatedOutcome' = [settled |-> "resolved", data |-> result]
  /\ relatedProducts' = Settle(Returns(result))
  /\ loaderPc' = "done"
  /\ UNCHANGED <<queries, productOutcome>>
  /\ UNCHANGED <<formVars, carouselVars, pageVars>>

\* the form at rest while another part of the page is looked at
FormIdle ==
  /\ productOptions = <<ColorOption>>
  /\ selectedVariant = NULL
  /\ selectedColorProduct = NULL
  /\ sizeQuantities = EmptyQuantities
  /\ aside = "closed"
  /\ probe = NULL
  /\ view = NULL
  /\ pending = <<>>

InitLoader == FormIdle /\ LoaderIdle /\ CarouselIdle /\ PageIdle

NextLoader ==
  \/ LoadDeferredData
  \/ ProductQueryRejects
  \/ \E data \in ProductResponses : ProductQueryResolves(data)
  \/ RelatedQueryRejects
  \/ \E result \in RelatedResponses : RelatedQueryResolves(result)

SpecLoader == InitLoader /\ [][NextLoader]_vars

\* ---------------------------------------------------- ProductImage
Image(id) == [id |-> [gid |-> id]]

ImagePool == {Image("i1"), Image("i2"), Image("i3")}

\* the images prop: Product.allImages, at most MaxImages images, each once
ImageLists ==
  {l \in SeqsUpTo(ImagePool, MaxImages) :
     \A j, k \in 1..Len(l) : l[j] = l[k] => j = k}

\* [imageArray.length, imageArray[0]?.id]
Deps ==
  [length |-> Len(images),
   firstId |-> IF images = <<>> THEN NULL ELSE images[1].id]

\* the render of ProductImage: an empty container without images;
\* otherwise the image at currentImageIndex, whose altText is read, which
\* throws a TypeError when the index is past the end of the list
ImageView ==
  IF images = <<>>
    THEN [raised |-> FALSE, currentImage |-> NULL, hasMultipleImages |-> FALSE]
  ELSE IF currentImageIndex + 1 > Len(images)
    THEN [raised |-> TRUE, currentImage |-> NULL, hasMultipleImages |-> FALSE]
  ELSE [raised |-> FALSE,
        currentImage |-> images[currentImageIndex + 1],
        hasMultipleImages |-> Len(images) > 1]

\* the carousel is rendered and its effect has run
Settled ==
  /\ imageView # NULL
  /\ ~imageView.raised
  /\ effectDeps = Deps

\* the page renders ProductImage with another list of images
ImagesChange(newImages) ==
  /\ Settled
  /\ newImages # images
  /\ images' = newImages
  /\ imageView' = NULL
  /\ imagesChanged' = TRUE
  /\ UNCHANGED <<currentImageIndex, effectDeps>>
  /\ UNCHANGED <<formVars, loaderVars, pageVars>>

RenderImage ==
  /\ imageView = NULL
  /\ imageView' = ImageView
  /\ UNCHANGED <<images, currentImageIndex, effectDeps, imagesChanged>>
  /\ UNCHANGED <<formVars, loaderVars, pageVars>>

\* useEffect(() => setCurrentImageIndex(0), [length, first id]): it runs
\* after a committed render whose dependencies differ from the last run;
\* a changed index schedules a render
ResetEffect ==
  /\ imageView # NULL
  /\ ~imageView.raised
  /\ effectDeps # Deps
  /\ effectDeps' = Deps
  /\ currentImageIndex' = 0
  /\ imageView' = IF currentImageIndex = 0 THEN imageView ELSE NULL
  /\ UNCHANGED <<images, imagesChanged>>
  /\ UNCHANGED <<formVars, loaderVars, pageVars>>

goToPrevious ==
  /\ Settled
  /\ imageView.hasMultipleImages
  /\ currentImageIndex' =
       IF currentImageIndex = 0 THEN Len(images) - 1 ELSE currentImageIndex - 1
  /\ imageView' = NULL
  /\ imagesChanged' = FALSE
  /\ UNCHANGED <<images, effectDeps>>
  /\ UNCHANGED <<formVars, loaderVars, pageVars>>

goToNext ==
  /\ Settled
  /\ imageView.hasMultipleImages
  /\ currentImageIndex' =
       IF currentImageIndex = Len(images) - 1 THEN 0 ELSE currentImageIndex + 1
  /\ imageView' = NULL
  /\ imagesChanged' = FALSE
  /\ UNCHANGED <<images, effectDeps>>
  /\ UNCHANGED <<formVars, loaderVars, pageVars>>

InitCarousel ==
  /\ FormIdle
  /\ LoaderIdle
  /\ PageIdle
  /\ images \in ImageLists
  /\ currentImageIndex = 0
  /\ effectDeps = NULL
  /\ imageView = NULL
  /\ imagesChanged = FALSE

NextCarousel ==
  \/ RenderImage
  \/ ResetEffect
  \/ goToPrevious
  \/ goToNext
  \/ \E newImages \in ImageLists : ImagesChange(newImages)

SpecCarousel == InitCarousel /\ [][NextCarousel]_vars

TypeOK ==
  /\ aside \in {"closed", "cart"}
  /\ \A k \in DOMAIN sizeQuantities : sizeQuantities[k] \in Int

\* ================================================================ claims
\* helpers of the claims
Rendered == view # NULL /\ view.multiSize /\ ~view.raised

Bundle == selectedColorProduct

SizeCount == Len(sizeOption.optionValues)

SizeValue(i) == sizeOption.optionValues[i]

\* the quantity entered for the i-th size is positive, so that the
\* cart-line builder resolves a variant for it
Requested(i) ==
  HasQuantity(SizeValue(i).name) /\ sizeQuantities[SizeValue(i).name] > 0

\* the i-th size contributes a cart line
HasLine(i) ==
  CartKeeps(SizeValue(i)) /\ CartLine(SizeValue(i)).merchandiseId # NULL

\* variant carries the given size: its option named "size" (any case) has a
\* value that equals the label after trimming both
CarriesSize(variant, label) ==
  /\ variant # NULL
  /\ variant.selectedOptions # NULL
  /\ \E k \in 1..Len(variant.selectedOptions.val) :
       /\ toLowerCase(variant.selectedOptions.val[k].name) = sLowerSize
       /\ trim(variant.selectedOptions.val[k].value) = trim(label)

\* variant is a genuine member of the active color product for that size
Genuine(variant, label) ==
  /\ CarriesSize(variant, label)
  /\ variant.product.handle = Bundle.handle

AdjacentVariants ==
  IF Bundle = NULL \/ Bundle.adjacentVariants = NULL THEN <<>>
  ELSE Bundle.adjacentVariants.val

\* the positions of adjacentVariants that hold a genuine member for label
GenuineAt(label) ==
  {k \in 1..Len(AdjacentVariants) : Genuine(AdjacentVariants[k], label)}

\* C1: while a color bundle is active, every emitted cart line carries a
\* variant whose product handle is the bundle's handle.
C1_LinesBelongToBundle ==
  (Rendered /\ Bundle # NULL) =>
    \A n \in 1..Len(view.lines) :
      view.lines[n].selectedVariant.product.handle = Bundle.handle

\* C2: for every size whose quantity makes the cart-line builder resolve a
\* variant, that variant is the one the size selector resolves for the size.
C2_SameResolution ==
  Rendered =>
    \A i \in 1..SizeCount :
      Requested(i) => CartVariant(SizeValue(i)) = view.sizes[i].variant

\* C3: a size contributes a cart line only if its quantity is positive, its
\* displayed variant is non-null and the selector renders it available.
C3_LineOnlyIfAvailable ==
  Rendered =>
    \A i \in 1..SizeCount :
      HasLine(i) =>
        /\ view.sizes[i].quantity > 0
        /\ view.sizes[i].variant # NULL
        /\ view.sizes[i].available

\* C4: every line handed to the add-to-cart button, of the size selector and
\* of the standard form alike, has a positive quantity and a merchandise id.
C4_LinesValid ==
  view # NULL =>
    \A n \in 1..Len(view.lines) :
      /\ view.lines[n].quantity > 0
      /\ view.lines[n].merchandiseId # NULL

\* a line is emitted although another size holds a non-positive entry
C4_Witness ==
  /\ Rendered
  /\ Len(view.lines) = 1
  /\ \E k \in DOMAIN sizeQuantities : sizeQuantities[k] < 0

\* C5 as stated: a size that no adjacent variant of the bundle carries is
\* displayed without variant, unavailable and with stock 0, whatever the
\* base value and the bundle's pre-resolved values contain.
C5_AbsentFromAdjacent ==
  (Rendered /\ Bundle # NULL) =>
    \A i \in 1..SizeCount :
      (\A k \in 1..Len(AdjacentVariants) :
         ~CarriesSize(AdjacentVariants[k], SizeValue(i).name))
      => /\ view.sizes[i].variant = NULL
         /\ ~view.sizes[i].available
         /\ view.sizes[i].stockQuantity = 0

\* the bundle's pre-resolved variant for the i-th label, NULL when the
\* bundle has no Size option, no value of that label or no variant for it
PreResolved(i) ==
  LET option == FindSizeOption(Bundle.options)
      named == IF option = NULL THEN {}
               ELSE {k \in 1..Len(option.optionValues) :
                       option.optionValues[k].name = SizeValue(i).name}
  IN IF named = {} THEN NULL
     ELSE option.optionValues[CHOOSE k \in named : \A j \in named : k <= j].firstSelectableVariant

\* C5 amended: a size that no adjacent variant of the bundle carries, and
\* for which the bundle pre-resolves no genuine member of that size, is
\* displayed without variant, unavailable and with stock 0, whatever the
\* base value contains.
C5_AbsentFromBundle ==
  (Rendered /\ Bundle # NULL) =>
    \A i \in 1..SizeCount :
      (/\ \A k \in 1..Len(AdjacentVariants) :
            ~CarriesSize(AdjacentVariants[k], SizeValue(i).name)
       /\ ~Genuine(PreResolved(i), SizeValue(i).name))
      => /\ view.sizes[i].variant = NULL
         /\ ~view.sizes[i].available
         /\ view.sizes[i].stockQuantity = 0

\* the base product offers the size, the bundle pre-resolves a variant of
\* another product for it, and the display shows it as absent
C5_Witness ==
  /\ Rendered
  /\ Bundle # NULL
  /\ \E i \in 1..SizeCount :
       /\ \A k \in 1..Len(AdjacentVariants) :
            ~CarriesSize(AdjacentVariants[k], SizeValue(i).name)
       /\ PreResolved(i) # NULL
       /\ SizeValue(i).firstSelectableVariant # NULL
       /\ SizeValue(i).available /\ SizeValue(i).exists
       /\ view.sizes[i].variant = NULL
       /\ view.sizes[i].stockQuantity = 0

\* C6: with a bundle present the display shows, for a size that some
\* adjacent variant genuinely carries, the first such variant in list
\* order; step 1 returns nothing else, and nothing when there is none.
C6_FirstGenuineAdjacent ==
  (Rendered /\ Bundle # NULL) =>
    \A i \in 1..SizeCount :
      LET at == GenuineAt(SizeValue(i).name)
      IN IF at = {}
           THEN SelectorFindVariantForSize(SizeValue(i).name) = NULL
           ELSE /\ view.sizes[i].variant
                     = AdjacentVariants[CHOOSE k \in at : \A j \in at : k <= j]
                /\ SelectorFindVariantForSize(SizeValue(i).name) = view.sizes[i].variant

\* the list starts with a variant of another product that carries the
\* size, and the display shows the genuine member behind it
C6_Witness ==
  /\ Rendered
  /\ Bundle # NULL
  /\ Len(AdjacentVariants) = 2
  /\ \E i \in 1..SizeCount :
       /\ CarriesSize(AdjacentVariants[1], SizeValue(i).name)
       /\ AdjacentVariants[1].product.handle # Bundle.handle
       /\ Genuine(AdjacentVariants[2], SizeValue(i).name)
       /\ view.sizes[i].variant = AdjacentVariants[2]

\* C7: with a bundle present and no genuine adjacent variant for a size,
\* the display shows the bundle's pre-resolved variant if that is a genuine
\* member of that size, and no variant otherwise.
C7_PreResolvedRevalidated ==
  (Rendered /\ Bundle # NULL) =>
    \A i \in 1..SizeCount :
      GenuineAt(SizeValue(i).name) = {} =>
        view.sizes[i].variant =
          (IF Genuine(PreResolved(i), SizeValue(i).name) THEN PreResolved(i) ELSE NULL)

\* the pre-resolved variant belongs to another product and is rejected
C7_Witness ==
  /\ Rendered
  /\ Bundle # NULL
  /\ \E i \in 1..SizeCount :
       /\ GenuineAt(SizeValue(i).name) = {}
       /\ PreResolved(i) # NULL
       /\ CarriesSize(PreResolved(i), SizeValue(i).name)
       /\ PreResolved(i).product.handle # Bundle.handle
       /\ view.sizes[i].variant = NULL

\* the cart-line builder reaches its last step and takes the base variant
CartFallsBackToBase(value) ==
  CartColorVariant(value) = NULL /\ value.firstSelectableVariant # NULL

\* the display reaches its last step and takes the base variant
DisplayFallsBackToBase(value) ==
  /\ DisplayColorVariant(value) = NULL
  /\ value.firstSelectableVariant # NULL
  /\ DisplayVariant(value) = value.firstSelectableVariant

\* C8: without a bundle the display and the cart-line builder resolve each
\* size to the base value's firstSelectableVariant; with a bundle present
\* neither of them takes the base value's firstSelectableVariant.
C8_BaseOnlyWithoutBundle ==
  Rendered =>
    \A i \in 1..SizeCount :
      /\ Bundle = NULL =>
           /\ view.sizes[i].variant = SizeValue(i).firstSelectableVariant
           /\ Requested(i) => CartVariant(SizeValue(i)) = SizeValue(i).firstSelectableVariant
      /\ Bundle # NULL =>
           /\ ~DisplayFallsBackToBase(SizeValue(i))
           /\ Requested(i) => ~CartFallsBackToBase(SizeValue(i))

\* C9: under a bundle, a variant of another product is never available,
\* and neither is a size without resolved variant, whatever the variant's
\* availableForSale and the base value's available/exists flags.
C9_ForeignOrAbsentUnavailable ==
  (probe # NULL /\ Bundle # NULL) =>
    /\ (probe.variant # NULL /\ probe.variant.product.handle # Bundle.handle)
         => probe.available = FALSE
    /\ probe.variant = NULL => probe.available = FALSE

\* a variant of another product that is for sale was computed unavailable
C9_Witness ==
  /\ probe # NULL
  /\ Bundle # NULL
  /\ probe.variant # NULL
  /\ probe.variant.product.handle # Bundle.handle
  /\ probe.variant.availableForSale
  /\ probe.available = FALSE

\* C10: the displayed stock is the resolved variant's quantityAvailable when
\* that is known, else 999 for an available size, else 0.
C10_StockQuantity ==
  Rendered =>
    \A i \in 1..SizeCount :
      LET row == view.sizes[i]
          known == row.variant # NULL /\ row.variant.quantityAvailable # NULL
      IN /\ known => row.stockQuantity = row.variant.quantityAvailable.val
         /\ (~known /\ row.available) => row.stockQuantity = 999
         /\ (~known /\ ~row.available) => row.stockQuantity = 0

\* an unavailable variant with a known count shows that count, and an
\* available variant with unknown count shows the sentinel
C10_Witness ==
  /\ Rendered
  /\ \E i, j \in 1..SizeCount :
       /\ view.sizes[i].variant # NULL
       /\ view.sizes[i].variant.quantityAvailable # NULL
       /\ ~view.sizes[i].available
       /\ view.sizes[i].stockQuantity > 0
       /\ view.sizes[j].variant # NULL
       /\ view.sizes[j].variant.quantityAvailable = NULL
       /\ view.sizes[j].available
       /\ view.sizes[j].stockQuantity = 999

\* C11: the stock cell of a size shows "999+" only when the size is
\* available and the inventory count of its variant is unknown (the stock
\* is the sentinel); a known count is never shown as "999+".
C11_SentinelDistinguishable ==
  Rendered =>
    \A i \in 1..Len(view.sizes) :
      view.sizes[i].stockLabel.quantity = Label999Plus =>
        /\ view.sizes[i].available
        /\ \/ view.sizes[i].variant = NULL
           \/ view.sizes[i].variant.quantityAvailable = NULL

\* s is a decimal number: digits with at most one point, at least one digit
IsDecimal(s) ==
  /\ \A k \in 1..Len(s) : s[k] \in Digits \cup {"."}
  /\ Cardinality({k \in 1..Len(s) : s[k] = "."}) <= 1
  /\ \E k \in 1..Len(s) : s[k] \in Digits

\* the variant has a price amount that is a decimal number
HasDecimalAmount(variant) ==
  /\ variant # NULL
  /\ variant.price # NULL
  /\ variant.price.amount # NULL
  /\ IsDecimal(variant.price.amount.val)

\* C12: the price shown for a size is a number that is not negative: the
\* amount of the resolved variant's price when that is a decimal number,
\* and 0 when there is no variant, no amount, or an amount that is not a
\* decimal number.
C12_PriceOrZero ==
  Rendered =>
    \A i \in 1..Len(view.sizes) :
      /\ view.sizes[i].price # NaN
      /\ view.sizes[i].price.val >= 0
      /\ IF HasDecimalAmount(view.sizes[i].variant)
           THEN view.sizes[i].price = parseFloat(view.sizes[i].variant.price.amount.val)
           ELSE view.sizes[i].price.val = 0

\* the i-th size passes the inclusion test of the cart-line builder: a
\* positive quantity and a resolved variant that is for sale
Included(i) ==
  /\ Requested(i)
  /\ CartVariant(SizeValue(i)) # NULL
  /\ CartVariant(SizeValue(i)).availableForSale

\* the number of included sizes up to the i-th
Rank(i) == Cardinality({j \in 1..i : Included(j)})

\* C13: the cart lines are the included sizes in the order of the size
\* option list, one line per included size and no other line; the line of
\* a size carries the quantity entered for it, the variant the builder
\* resolved for it and that variant's id.  A size with quantity 0 or no
\* quantity is not included.
C13_LinesInOptionOrder ==
  Rendered =>
    /\ Len(view.lines) = Cardinality({i \in 1..SizeCount : Included(i)})
    /\ \A i \in 1..SizeCount :
         Included(i) =>
           /\ view.lines[Rank(i)].quantity = sizeQuantities[SizeValue(i).name]
           /\ view.lines[Rank(i)].selectedVariant = CartVariant(SizeValue(i))
           /\ view.lines[Rank(i)].merchandiseId = CartVariant(SizeValue(i)).id

\* two sizes with different quantities give two lines in option order
C13_Witness ==
  /\ Rendered
  /\ Len(view.lines) = 2
  /\ view.lines[1].quantity = 2
  /\ view.lines[2].quantity = 1

C15_DisabledIffNoLines ==
  Rendered =>
    /\ view.disabled <=> (Len(cartLines) = 0)
    /\ view.lines = cartLines

C15_Witness ==
  /\ Rendered
  /\ ~view.disabled
  /\ Len(cartLines) > 0
  /\ aside = "cart"

\* every size has quantity 0 or no quantity
AllZero ==
  \A i \in 1..SizeCount :
    HasQuantity(SizeValue(i).name) => sizeQuantities[SizeValue(i).name] = 0

\* C16: whenever every size has quantity 0 or none, whatever was entered
\* before and whichever color product is active, there is no cart line and
\* the button is disabled.
C16_AllZeroDisables ==
  (Rendered /\ AllZero) => (Len(view.lines) = 0 /\ view.disabled)

\* both sizes were edited and stand at 0 under a color product whose
\* variants are for sale
C16_Witness ==
  /\ Rendered
  /\ Bundle # NULL
  /\ \A i \in 1..SizeCount :
       /\ HasQuantity(SizeValue(i).name)
       /\ sizeQuantities[SizeValue(i).name] = 0
       /\ CartVariant(SizeValue(i)) # NULL
       /\ CartVariant(SizeValue(i)).availableForSale
  /\ view.disabled

\* C17: a step that changes the size options the form works with (the
\* shopper switches to another color product) resets the quantity map: no
\* positive quantity entered before the step is stored after it.  (The
\* claim asks for the empty map; entries of 0, which the field shows as
\* empty and the builder ignores, are let pass here.)
C17_ResetOnOptionsChange ==
  [][effectiveSizeOption' # effectiveSizeOption =>
       \A k \in DOMAIN sizeQuantities' : ~(sizeQuantities'[k] > 0)]_vars

\* C18: every quantity stored in the map is an integer that is not
\* negative.
C18_QuantitiesNonNegative ==
  \A k \in DOMAIN sizeQuantities :
    sizeQuantities[k] \in Int /\ sizeQuantities[k] >= 0

\* the positions of the queue that update the size label k
UpdatesOf(k) == {n \in 1..Len(pending) : pending[n].sizeName = k}

LastUpdateOf(k) == CHOOSE n \in UpdatesOf(k) : \A m \in UpdatesOf(k) : m <= n

\* C19: when the queued quantity updates are applied, the new map has the
\* old keys and the updated ones; a key that no update names keeps its
\* value, and a key that updates name holds the quantity of the last of
\* them.  A single update therefore changes the map at its own key only,
\* and no update of a queue is lost.
C19_NoEditLost ==
  [][(pending # <<>> /\ pending' = <<>>) =>
       /\ DOMAIN sizeQuantities' =
            DOMAIN sizeQuantities \cup {pending[n].sizeName : n \in 1..Len(pending)}
       /\ \A k \in DOMAIN sizeQuantities' :
            IF UpdatesOf(k) = {}
              THEN sizeQuantities'[k] = sizeQuantities[k]
              ELSE sizeQuantities'[k] = pending[LastUpdateOf(k)].quantity]_vars

\* two updates of different sizes are queued on top of a map that earlier
\* updates have filled
C19_Witness ==
  /\ Len(pending) = 2
  /\ pending[1].sizeName # pending[2].sizeName
  /\ pending[1].quantity > 0
  /\ pending[2].quantity > 0
  /\ DOMAIN sizeQuantities # {}

\* C20: the step that opens the cart aside (the click on the add-to-cart
\* button) changes nothing else: the quantity map, the color product, the
\* product and what is rendered are as before, so the button is still
\* enabled and a second click hands over the same lines.
C20_SubmitKeepsState ==
  [][aside' # aside =>
       /\ aside' = "cart"
       /\ sizeQuantities' = sizeQuantities
       /\ selectedColorProduct' = selectedColorProduct
       /\ productOptions' = productOptions
       /\ selectedVariant' = selectedVariant
       /\ view' = view
       /\ ~view'.disabled]_vars

\* the size selector after a submission under a color product: the
\* quantities are still there and the button is still enabled
C20_Witness ==
  /\ aside = "cart"
  /\ Rendered
  /\ Bundle # NULL
  /\ \E k \in DOMAIN sizeQuantities : sizeQuantities[k] = 2
  /\ Len(view.lines) > 0
  /\ ~view.disabled

\* the positions of the product's options that are named "size" in any case
SizeOptionsAt ==
  {k \in 1..Len(productOptions) : toLowerCase(productOptions[k].name) = sLowerSize}

\* the product has no Size option, or its Size option has a single value
NoSizeChoice ==
  \/ SizeOptionsAt = {}
  \/ \E k \in SizeOptionsAt :
       /\ \A j \in SizeOptionsAt : k <= j
       /\ Len(productOptions[k].optionValues) <= 1

\* C21: the standard form is rendered exactly when the product has no Size
\* option or a Size option with one value.  Its button carries one line,
\* of quantity 1, for the selected variant, or no line and is disabled
\* when there is no selected variant; it is enabled only when the selected
\* variant is for sale.
C21_StandardForm ==
  view # NULL =>
    /\ ~view.multiSize <=> NoSizeChoice
    /\ ~view.multiSize =>
         /\ selectedVariant = NULL => (view.disabled /\ view.lines = <<>>)
         /\ selectedVariant # NULL =>
              /\ Len(view.lines) = 1
              /\ view.lines[1].quantity = 1
              /\ view.lines[1].merchandiseId = selectedVariant.id
              /\ view.lines[1].selectedVariant = selectedVariant
         /\ ~view.disabled =>
              (selectedVariant # NULL /\ selectedVariant.availableForSale)

\* the standard form of a product with a one-value Size option, submitted
C21_Witness ==
  /\ view # NULL
  /\ ~view.multiSize
  /\ SizeOptionsAt # {}
  /\ Len(view.lines) = 1
  /\ aside = "cart"

\* C22: the render of the size selector never throws, whatever the color
\* product holds (no adjacentVariants, null entries, variants without
\* selectedOptions or without a Size option, no Size option, a missing size
\* label, a null pre-resolved variant); each size gets a variant or none,
\* and under a color product a size without variant is unavailable with
\* stock 0.
C22_NeverRaises ==
  (view # NULL /\ view.multiSize) =>
    /\ ~view.raised
    /\ Len(view.sizes) = SizeCount
    /\ \A i \in 1..Len(view.sizes) :
         (Bundle # NULL /\ view.sizes[i].variant = NULL) =>
           (~view.sizes[i].available /\ view.sizes[i].stockQuantity = 0)

\* the product carries a tag "ProductID:<value>" whose trimmed value is
\* not empty
NonEmptyProductIDValues(p) ==
  IF p.tags = NULL THEN {}
  ELSE {trim(SubSeq(p.tags.val[k], Len(sProductIDPrefix) + 1,
                    Len(p.tags.val[k]))) :
          k \in {j \in 1..Len(p.tags.val) :
                   /\ startsWith(p.tags.val[j], sProductIDPrefix)
                   /\ trim(SubSeq(p.tags.val[j], Len(sProductIDPrefix) + 1,
                                  Len(p.tags.val[j]))) # <<>>}}

\* the product query resolved with a product that has an id
ProductWithId ==
  /\ productOutcome.settled = "resolved"
  /\ productOutcome.data # NULL
  /\ productOutcome.data.product # NULL
  /\ productOutcome.data.product.id # NULL

\* C23: the promise of the chain is never rejected and is fulfilled once
\* the queries have settled; when a query rejected, or the product has no
\* id, or no tag "ProductID:<value>" with a non-empty trimmed value, it is
\* fulfilled with products.nodes empty.
C23_NeverRejects ==
  /\ relatedProducts.state # "rejected"
  /\ loaderPc = "done" =>
       /\ relatedProducts.state = "fulfilled"
       /\ (\/ productOutcome.settled = "rejected"
           \/ relatedOutcome.settled = "rejected"
           \/ ~ProductWithId
           \/ NonEmptyProductIDValues(productOutcome.data.product) = {})
          => relatedProducts.value = EmptyResult

\* the chain has settled after the related-products query rejected
C23_Witness ==
  /\ loaderPc = "done"
  /\ relatedOutcome.settled = "rejected"
  /\ relatedProducts = Fulfilled(EmptyResult)

\* the related-products queries issued so far
RelatedQueriesAt ==
  {k \in 1..Len(queries) : queries[k].query = "RELATED_PRODUCTS_QUERY"}

\* C24: at most one related-products query is issued; it comes after the
\* product query, which has resolved with a product that has an id and a
\* tag "ProductID:<value>" with a non-empty trimmed value, and its search
\* term is "tag:ProductID:" followed by such a trimmed value.
C24_RelatedQueryOnce ==
  /\ Cardinality(RelatedQueriesAt) <= 1
  /\ \A k \in RelatedQueriesAt :
       /\ k = 2
       /\ queries[1] = ProductQuery
       /\ ProductWithId
       /\ \E value \in NonEmptyProductIDValues(productOutcome.data.product) :
            queries[k].searchTerm = sTagPrefix \o sProductIDPrefix \o value

\* the related-products query was issued for a tag with blanks around its
\* value, and has resolved
C24_Witness ==
  /\ loaderPc = "done"
  /\ RelatedQueriesAt # {}
  /\ \E k \in RelatedQueriesAt :
       queries[k].searchTerm = sTagPrefix \o sProductIDPrefix \o <<"8">>
  /\ relatedOutcome.settled = "resolved"

\* C25: once the carousel has settled after a change of its images (it is
\* rendered, its effect has run, no button was clicked since the change),
\* the index is 0.
C25_IndexResetOnChange ==
  (Settled /\ imagesChanged) => currentImageIndex = 0

\* C26: every render of ProductImage with images finds the index within
\* 0..length-1 and so has a current image, after any clicks and changes of
\* the images.
C26_IndexInRange ==
  (imageView # NULL /\ images # <<>>) =>
    /\ currentImageIndex \in 0..(Len(images) - 1)
    /\ ~imageView.raised
    /\ imageView.currentImage = images[currentImageIndex + 1]

\* C27 as stated: a size rendered as unavailable has the displayed stock 0
\* and the stock cell "Out of Stock".
C27_UnavailableOutOfStock ==
  Rendered =>
    \A i \in 1..Len(view.sizes) :
      ~view.sizes[i].available =>
        (view.sizes[i].stockQuantity = 0 /\ ~view.sizes[i].stockLabel.inStock)

\* C27 amended: a size rendered as unavailable whose variant is absent or
\* has no known inventory count has the displayed stock 0 and the stock
\* cell "Out of Stock"; with a known count the cell shows that count.
C27_UnavailableUnknownOutOfStock ==
  Rendered =>
    \A i \in 1..Len(view.sizes) :
      ~view.sizes[i].available =>
        IF view.sizes[i].variant = NULL \/ view.sizes[i].variant.quantityAvailable = NULL
          THEN view.sizes[i].stockQuantity = 0 /\ ~view.sizes[i].stockLabel.inStock
          ELSE view.sizes[i].stockQuantity = view.sizes[i].variant.quantityAvailable.val

\* under a color product, a sold-out variant without a known count
C27_Witness ==
  /\ Rendered
  /\ Bundle # NULL
  /\ \E i \in 1..Len(view.sizes) :
       /\ ~view.sizes[i].available
       /\ view.sizes[i].variant # NULL
       /\ view.sizes[i].variant.quantityAvailable = NULL
       /\ ~view.sizes[i].stockLabel.inStock

\* ------------------------------------------------------ Product page
hCap == "cap"
hCapGreen == "cap-green"
hMug == "mug"

vCap == Variant("v14", hCap, Box(<<Opt(sColor, sRed)>>), TRUE, NULL)

capBlue == Tagged(ColorProduct(hCap, NULL, <<ColorOption>>), Box(<<ColorCodeTag(<<"B">>)>>))
capGreen ==
  Tagged(ColorProduct(hCapGreen, NULL, <<ColorOption>>), Box(<<ColorCodeTag(<<"G", " ">>)>>))
\* a product without a colorCode tag
mug == Tagged(ColorProduct(hMug, NULL, <<ColorOption>>), Box(<<sProductIDPrefix \o <<"7">>>>))

\* what the loader delivers for a product page: the product, the nodes of
\* relatedProducts, and the props the form gets from the product
Page(p, nodes, options, variant) ==
  [product |-> p, relatedNodes |-> nodes, productOptions |-> options,
   selectedVariant |-> variant]

Pages ==
  {Page(CatalogNodes[1], Box(CatalogNodes),
        <<ColorOption, Option(sSize, <<MappedValue(sM, vShirtM, TRUE, TRUE),
                                       MappedValue(sSpaceL, vShirtL, TRUE, TRUE)>>)>>,
        vShirtM),
   Page(capBlue, Box(<<capGreen, capBlue>>), <<ColorOption>>, vCap),
   Page(mug, Box(<<>>), <<ColorOption>>, NULL)}

\* Product mounts with the page the loader delivered
Mount(page) ==
  /\ product = page.product
  /\ relatedNodes = page.relatedNodes
  /\ productOptions = page.productOptions
  /\ selectedVariant = page.selectedVariant
  /\ selectedColor = initialColorCode(page.product)
  /\ selectedColorProduct = page.product
  /\ sizeQuantities = EmptyQuantities
  /\ aside = "closed"
  /\ probe = NULL
  /\ view = NULL
  /\ pending = <<>>
  /\ DropdownIdle
  /\ LoaderIdle
  /\ CarouselIdle

\* the loader delivers another product to the mounted route: the props
\* change, the state of Product, ColorDropdown and ProductForm stays
Navigate(page) ==
  /\ view # NULL
  /\ page.product # product
  /\ product' = page.product
  /\ relatedNodes' = page.relatedNodes
  /\ productOptions' = page.productOptions
  /\ selectedVariant' = page.selectedVariant
  /\ view' = NULL
  /\ UNCHANGED <<selectedColor, selectedColorProduct, sizeQuantities, aside, probe, pending>>
  /\ UNCHANGED <<isOpen, searchTerm, loaderVars, carouselVars>>

\* the color selection of one product page
InitPage == \E page \in Pages : Mount(page)

NextPage ==
  \/ Render
  \/ \E k \in 1..Len(colors) : ColorSelect(colors[k])
  \/ ToggleDropdown
  \/ \E term \in SearchTerms : SearchEdit(term)
  \/ \E k \in 1..Len(filteredColors) : handleColorSelect(filteredColors[k])
  \/ handleClickOutside

SpecPage == InitPage /\ [][NextPage]_vars

\* the product page with navigation between products
InitNavigate == \E page \in Pages : Mount(page)

NextNavigate ==
  \/ Render
  \/ \E i \in 1..2, str \in QuantityInputs : QuantityInput(i, str)
  \/ \E k \in 1..Len(colors) : ColorSelect(colors[k])
  \/ \E page \in Pages : Navigate(page)

SpecNavigate == InitNavigate /\ [][NextNavigate]_vars

\* the trimmed values of the "colorCode:" tags of a product
ColorCodeValues(p) ==
  IF p = NULL \/ p.tags = NULL THEN {}
  ELSE {trim(SubSeq(p.tags.val[k], Len(sColorCodePrefix) + 1, Len(p.tags.val[k]))) :
          k \in {j \in 1..Len(p.tags.val) : startsWith(p.tags.val[j], sColorCodePrefix)}}

\* C28: on the Product page, initially and after any sequence of color
\* selections through the dropdown or the swatches, selectedColorProduct is
\* a product whose trimmed "colorCode:" tag equals selectedColor, or
\* selectedColor is null and selectedColorProduct is the loaded product.
C28_ColorMatchesProduct ==
  \/ /\ selectedColor # NULL
     /\ selectedColor.val \in ColorCodeValues(selectedColorProduct)
  \/ /\ selectedColor = NULL
     /\ selectedColorProduct = product

\* a color picked through the dropdown whose tag is padded with blanks
C28_Witness ==
  /\ selectedColorProduct # product
  /\ selectedColor = Box(<<"R", "1">>)
  /\ colorCodeTag(selectedColorProduct) = Box(ColorCodeTag(<<" ", "R", "1", " ">>))
  /\ ~isOpen
  /\ view # NULL

\* the product is the loaded product or one of its related color products
OfLoadedPage(p) ==
  \/ p = product
  \/ /\ relatedNodes # NULL
     /\ \E k \in 1..Len(relatedNodes.val) : relatedNodes.val[k] = p

\* the color is the loaded product's own or one the page offers
ColorOfLoadedPage(c) ==
  \/ c = initialColorCode(product)
  \/ /\ c # NULL
     /\ \E k \in 1..Len(colors) : colors[k].code = c.val

\* C29: after the loader delivers a different product to the same Product
\* route, selectedColorProduct and selectedColor refer to the newly loaded
\* product or one of its related color products, never to a product of the
\* previously viewed page.
C29_SelectionFollowsNavigation ==
  [][product' # product =>
       (OfLoadedPage(selectedColorProduct) /\ ColorOfLoadedPage(selectedColor))']_vars

\* C30: whenever the color dropdown is closed its search term is empty.
C30_ClosedDropdownHasNoSearchTerm ==
  ~isOpen => searchTerm = <<>>

====
